---- MODULE Spec2Model ----
(***************************************************************************)
(* Model of samples/openai-acs-msgraph/server/typescript/openAI.ts:        *)
(* the two public flows getSQL and completeEmailSMSMessages, the backend   *)
(* selection of callOpenAI, the brace-matching extractJson and the         *)
(* denylist isProhibitedQuery.                                             *)
(*                                                                         *)
(* A JavaScript string is a sequence of one-character strings, so that     *)
(* trim, includes, startsWith, toLowerCase, the regular expression of      *)
(* extractJson and JSON.parse are computed character by character.         *)
(* A JavaScript value is a record [t |-> type tag, v |-> payload].         *)
(***************************************************************************)
EXTENDS Integers, Sequences, FiniteSets, TLC

VARIABLES
    OPENAI_API_KEY,   \* process.env.OPENAI_API_KEY, read once at load
    OPENAI_ENDPOINT,  \* process.env.OPENAI_ENDPOINT
    OPENAI_MODEL,     \* process.env.OPENAI_MODEL
    op,               \* the function under execution
    pc,               \* its position: the await it is suspended at
    invoked,          \* the backend functions callOpenAI has called
    requests,         \* the network requests issued, in order
    rawContent,       \* choices[0].message.content of the response
    results,          \* the string callOpenAI resolved to
    parsed,           \* what the JSON.parse of the flow did
    queryData,        \* getSQL's result accumulator
    content,          \* completeEmailSMSMessages' result accumulator
    caught,           \* the exception the flow's catch block swallowed
    escaped           \* TRUE when the async function rejected

vars == <<OPENAI_API_KEY, OPENAI_ENDPOINT, OPENAI_MODEL, op, pc, invoked,
          requests, rawContent, results, parsed, queryData, content, caught,
          escaped>>

(***************************************************************************)
(* Bounds of the model.                                                    *)
(***************************************************************************)
\* longest text handed to extractJson in SpecExtractJson
MaxLen == 6
\* longest free-form brace text among the model replies of Spec
MaxReplyLen == 3

(***************************************************************************)
(* JavaScript strings.                                                     *)
(***************************************************************************)
Q == "\""

Whitespace == {" ", "\n"}

UpperCase == <<"A","B","C","D","E","F","G","H","I","J","K","L","M",
               "N","O","P","Q","R","S","T","U","V","W","X","Y","Z">>

LowerCase == <<"a","b","c","d","e","f","g","h","i","j","k","l","m",
               "n","o","p","q","r","s","t","u","v","w","x","y","z">>

\* s[p], or "" past either end
At(s, p) == IF p \in 1..Len(s) THEN s[p] ELSE ""

\* String.prototype.trim
RECURSIVE trimStart(_)
trimStart(s) ==
    IF s # <<>> /\ Head(s) \in Whitespace THEN trimStart(Tail(s)) ELSE s

RECURSIVE trimEnd(_)
trimEnd(s) ==
    IF s # <<>> /\ s[Len(s)] \in Whitespace
    THEN trimEnd(SubSeq(s, 1, Len(s) - 1))
    ELSE s

trim(s) == trimEnd(trimStart(s))

\* String.prototype.includes
includes(s, k) ==
    \E i \in 1..(Len(s) - Len(k) + 1) : SubSeq(s, i, i + Len(k) - 1) = k

\* String.prototype.startsWith / endsWith with a one-character argument
startsWith(s, c) == s # <<>> /\ s[1] = c

endsWith(s, c) == s # <<>> /\ s[Len(s)] = c

\* String.prototype.toLowerCase
toLowerCase(s) ==
    [i \in 1..Len(s) |->
        IF \E j \in 1..Len(UpperCase) : UpperCase[j] = s[i]
        THEN LowerCase[CHOOSE j \in 1..Len(UpperCase) : UpperCase[j] = s[i]]
        ELSE s[i]]

(***************************************************************************)
(* extractJson: content.match(/\{(?:[^{}]|{[^{}]*})*\}/g), first match.    *)
(* The matcher follows the backtracking order of the regular expression:   *)
(* every operator returns the positions it can end at, most preferred      *)
(* first.                                                                  *)
(***************************************************************************)
IsBrace(c) == c \in {"{", "}"}

RECURSIVE ConcatAll(_)
ConcatAll(ss) == IF ss = <<>> THEN <<>> ELSE Head(ss) \o ConcatAll(Tail(ss))

\* [^{}]* from p: the end of the longest run of non-brace characters
NonBraceRun(s, p) ==
    CHOOSE m \in p..(Len(s) + 1) :
        /\ m = Len(s) + 1 \/ IsBrace(s[m])
        /\ \A q \in p..(m - 1) : ~IsBrace(s[q])

\* {[^{}]*} from p: greedy run, given back one character at a time, then }
GroupEnds(s, p) ==
    IF At(s, p) # "{" THEN <<>>
    ELSE LET m == NonBraceRun(s, p + 1)
             tries == [k \in 1..(m - p) |-> m - k + 1]
             hits == SelectSeq(tries, LAMBDA q : At(s, q) = "}")
         IN  [k \in 1..Len(hits) |-> hits[k] + 1]

\* (?:[^{}]|{[^{}]*})* from p.  On a non-brace character only the first
\* alternative applies, on { only the second, on } none: the iterations
\* take the run of non-brace characters up to m, then a group at m and
\* what follows it, and give the run back one character at a time
RECURSIVE StarEnds(_, _)
StarEnds(s, p) ==
    LET m == NonBraceRun(s, p)
        groups == GroupEnds(s, m)
    IN  ConcatAll([k \in 1..Len(groups) |-> StarEnds(s, groups[k])])
            \o [k \in 1..(m - p + 1) |-> m - k + 1]

\* the whole expression anchored at i: the position after the match, or 0
MatchAt(s, i) ==
    IF At(s, i) # "{" THEN 0
    ELSE LET ends == SelectSeq(StarEnds(s, i + 1), LAMBDA q : At(s, q) = "}")
         IN  IF ends = <<>> THEN 0 ELSE Head(ends) + 1

\* the regular expression with the nested group left out: /\{[^{}]*\}/g
extractJsonFlat(text) ==
    LET starts == {i \in 1..Len(text) :
                      /\ text[i] = "{"
                      /\ At(text, NonBraceRun(text, i + 1)) = "}"}
    IN  IF starts = {} THEN <<>>
        ELSE LET i == CHOOSE k \in starts : \A l \in starts : k <= l
             IN  SubSeq(text, i, NonBraceRun(text, i + 1))

extractJson(text) ==
    LET starts == {i \in 1..Len(text) : MatchAt(text, i) # 0}
    IN  IF starts = {} THEN <<>>
        ELSE LET i == CHOOSE k \in starts : \A l \in starts : k <= l
             IN  SubSeq(text, i, MatchAt(text, i) - 1)

(***************************************************************************)
(* JavaScript values.                                                      *)
(***************************************************************************)
Undefined == [t |-> "undefined", v |-> <<>>]

Null == [t |-> "null", v |-> <<>>]

Bool(b) == [t |-> "boolean", v |-> b]

Str(s) == [t |-> "string", v |-> s]

\* a number, kept as its decimal digits
Num(d) == [t |-> "number", v |-> d]

Arr(a) == [t |-> "array", v |-> a]

\* an object: v maps each own property name to its value
Obj(f) == [t |-> "object", v |-> f]

EmptyFields == [k \in {} |-> Undefined]

\* o with property k set to val (o.k = val, or {...o, k: val})
SetField(f, k, val) ==
    [x \in (DOMAIN f) \cup {k} |-> IF x = k THEN val ELSE f[x]]

\* {...f, ...g}
Spread(f, g) ==
    [x \in (DOMAIN f) \cup (DOMAIN g) |-> IF x \in DOMAIN g THEN g[x] ELSE f[x]]

\* o.k
Get(o, k) == IF k \in DOMAIN o.v THEN o.v[k] ELSE Undefined

\* ToBoolean
Truthy(x) ==
    CASE x.t \in {"undefined", "null"} -> FALSE
      [] x.t = "boolean" -> x.v
      [] x.t = "string"  -> x.v # <<>>
      [] x.t = "number"  -> x.v # <<"0">>
      [] OTHER -> TRUE

(***************************************************************************)
(* JSON.parse, by recursive descent over the characters: objects, arrays,  *)
(* strings, non-negative integers, true, false, null, with whitespace      *)
(* between tokens.  String escapes, signs, fractions and exponents are not *)
(* modelled: no model reply of this module holds a backslash, a sign or a  *)
(* decimal point.                                                          *)
(***************************************************************************)
Digit == {"0","1","2","3","4","5","6","7","8","9"}

Fail(p) == [ok |-> FALSE, val |-> Undefined, pos |-> p]

Ok(x, p) == [ok |-> TRUE, val |-> x, pos |-> p]

RECURSIVE SkipWs(_, _)
SkipWs(s, p) == IF At(s, p) \in Whitespace THEN SkipWs(s, p + 1) ELSE p

\* the closing quote of a string whose first character is at p, or 0
RECURSIVE StringEnd(_, _)
StringEnd(s, p) ==
    IF p > Len(s) \/ s[p] = "\n" THEN 0
    ELSE IF s[p] = Q THEN p
    ELSE StringEnd(s, p + 1)

ParseString(s, p) ==
    LET e == StringEnd(s, p + 1)
    IN  IF e = 0 THEN Fail(p) ELSE Ok(Str(SubSeq(s, p + 1, e - 1)), e + 1)

RECURSIVE DigitsEnd(_, _)
DigitsEnd(s, p) == IF At(s, p) \in Digit THEN DigitsEnd(s, p + 1) ELSE p

\* no leading zero: "0" is a number on its own
ParseNumber(s, p) ==
    IF s[p] = "0" THEN Ok(Num(<<"0">>), p + 1)
    ELSE Ok(Num(SubSeq(s, p, DigitsEnd(s, p) - 1)), DigitsEnd(s, p))

ParseLiteral(s, p, word, x) ==
    IF p + Len(word) - 1 <= Len(s) /\ SubSeq(s, p, p + Len(word) - 1) = word
    THEN Ok(x, p + Len(word))
    ELSE Fail(p)

RECURSIVE ParseValue(_, _)
RECURSIVE ParseElements(_, _, _)
RECURSIVE ParseMembers(_, _, _)

ParseValue(s, p) ==
    LET c == At(s, p)
        q == SkipWs(s, p + 1)
    IN  CASE c = "{" -> IF At(s, q) = "}" THEN Ok(Obj(EmptyFields), q + 1)
                        ELSE ParseMembers(s, q, EmptyFields)
          [] c = "[" -> IF At(s, q) = "]" THEN Ok(Arr(<<>>), q + 1)
                        ELSE ParseElements(s, q, <<>>)
          [] c = Q   -> ParseString(s, p)
          [] c \in Digit -> ParseNumber(s, p)
          [] c = "t" -> ParseLiteral(s, p, <<"t","r","u","e">>, Bool(TRUE))
          [] c = "f" -> ParseLiteral(s, p, <<"f","a","l","s","e">>, Bool(FALSE))
          [] c = "n" -> ParseLiteral(s, p, <<"n","u","l","l">>, Null)
          [] OTHER   -> Fail(p)

\* the elements of an array from p, acc the elements read so far
ParseElements(s, p, acc) ==
    LET x == ParseValue(s, p)
        q == SkipWs(s, x.pos)
    IN  IF ~x.ok THEN Fail(p)
        ELSE IF At(s, q) = "," THEN
            ParseElements(s, SkipWs(s, q + 1), Append(acc, x.val))
        ELSE IF At(s, q) = "]" THEN Ok(Arr(Append(acc, x.val)), q + 1)
        ELSE Fail(q)

\* the members of an object from p, acc the properties read so far; a
\* repeated name keeps its last value
ParseMembers(s, p, acc) ==
    IF At(s, p) # Q THEN Fail(p)
    ELSE
    LET k == ParseString(s, p)
        c == SkipWs(s, k.pos)
        x == ParseValue(s, SkipWs(s, c + 1))
        q == SkipWs(s, x.pos)
    IN  IF ~k.ok \/ At(s, c) # ":" THEN Fail(p)
        ELSE IF ~x.ok THEN Fail(c)
        ELSE IF At(s, q) = "," THEN
            ParseMembers(s, SkipWs(s, q + 1), SetField(acc, k.val.v, x.val))
        ELSE IF At(s, q) = "}" THEN
            Ok(Obj(SetField(acc, k.val.v, x.val)), q + 1)
        ELSE Fail(q)

\* JSON.parse(text): ok = FALSE stands for the SyntaxError it throws
JSON_parse(text) ==
    LET r == ParseValue(text, SkipWs(text, 1))
    IN  IF r.ok /\ SkipWs(text, r.pos) = Len(text) + 1
        THEN [ok |-> TRUE, val |-> r.val]
        ELSE [ok |-> FALSE, val |-> Undefined]

(***************************************************************************)
(* isProhibitedQuery.                                                      *)
(***************************************************************************)
prohibitedKeywords ==
    <<
        <<"i","n","s","e","r","t">>,
        <<"u","p","d","a","t","e">>,
        <<"d","e","l","e","t","e">>,
        <<"d","r","o","p">>,
        <<"t","r","u","n","c","a","t","e">>,
        <<"a","l","t","e","r">>,
        <<"c","r","e","a","t","e">>,
        <<"r","e","p","l","a","c","e">>,
        <<"i","n","f","o","r","m","a","t","i","o","n","_","s","c","h","e",
          "m","a">>,
        <<"p","g","_","c","a","t","a","l","o","g">>,
        <<"p","g","_","t","a","b","l","e","s">>,
        <<"p","g","_","n","a","m","e","s","p","a","c","e">>,
        <<"p","g","_","c","l","a","s","s">>,
        <<"t","a","b","l","e","_","s","c","h","e","m","a">>,
        <<"t","a","b","l","e","_","n","a","m","e">>,
        <<"c","o","l","u","m","n","_","n","a","m","e">>,
        <<"c","o","l","u","m","n","_","d","e","f","a","u","l","t">>,
        <<"i","s","_","n","u","l","l","a","b","l","e">>,
        <<"d","a","t","a","_","t","y","p","e">>,
        <<"u","d","t","_","n","a","m","e">>,
        <<"c","h","a","r","a","c","t","e","r","_","m","a","x","i","m","u",
          "m","_","l","e","n","g","t","h">>,
        <<"n","u","m","e","r","i","c","_","p","r","e","c","i","s","i","o",
          "n">>,
        <<"n","u","m","e","r","i","c","_","s","c","a","l","e">>,
        <<"d","a","t","e","t","i","m","e","_","p","r","e","c","i","s","i",
          "o","n">>,
        <<"i","n","t","e","r","v","a","l","_","t","y","p","e">>,
        <<"c","o","l","l","a","t","i","o","n","_","n","a","m","e">>,
        <<"g","r","a","n","t">>,
        <<"r","e","v","o","k","e">>,
        <<"r","o","l","l","b","a","c","k">>,
        <<"c","o","m","m","i","t">>,
        <<"s","a","v","e","p","o","i","n","t">>,
        <<"v","a","c","u","u","m">>,
        <<"a","n","a","l","y","z","e">>
    >>

\* threw = TRUE stands for the TypeError of query.toLowerCase() on a value
\* that is no string
isProhibitedQuery(query) ==
    IF ~Truthy(query) THEN [threw |-> FALSE, val |-> FALSE]
    ELSE IF query.t # "string" THEN [threw |-> TRUE, val |-> FALSE]
    ELSE LET queryLower == toLowerCase(query.v)
         IN  [threw |-> FALSE,
              val |-> \E k \in 1..Len(prohibitedKeywords) :
                          includes(queryLower, prohibitedKeywords[k])]

(***************************************************************************)
(* Property names and string literals of the source.                       *)
(***************************************************************************)
K_sql ==
    <<"s","q","l">>

K_paramValues ==
    <<"p","a","r","a","m","V","a","l","u","e","s">>

K_error ==
    <<"e","r","r","o","r">>

K_status ==
    <<"s","t","a","t","u","s">>

K_email ==
    <<"e","m","a","i","l">>

K_sms ==
    <<"s","m","s">>

K_content ==
    <<"c","o","n","t","e","n","t">>

K_emailSubject ==
    <<"e","m","a","i","l","S","u","b","j","e","c","t">>

K_emailBody ==
    <<"e","m","a","i","l","B","o","d","y">>

ProhibitedText ==
    <<"P","r","o","h","i","b","i","t","e","d"," ","q","u","e","r","y",".">>

\* { sql: '', paramValues: [], error: '' }
DefaultQueryData ==
    Obj(SetField(SetField(SetField(EmptyFields, K_sql, Str(<<>>)),
                          K_paramValues, Arr(<<>>)),
                 K_error, Str(<<>>)))

\* { status: false, email: '', sms: '', error: '' }
DefaultContent ==
    Obj(SetField(SetField(SetField(SetField(EmptyFields, K_status, Bool(FALSE)),
                                   K_email, Str(<<>>)),
                          K_sms, Str(<<>>)),
                 K_error, Str(<<>>)))

(***************************************************************************)
(* The inputs: the environment and the replies of the model.               *)
(***************************************************************************)
\* an environment variable is unset, empty or set
EnvValues == {Undefined, Str(<<>>), Str(<<"x">>)}

\* a query without a denylisted keyword
SELECT1 ==
    <<"S","E","L","E","C","T"," ","1">>

\* a query with a denylisted keyword in upper case
DROPT ==
    <<"D","R","O","P"," ","t">>

\* prose without a denylisted keyword
ICANNOT ==
    <<"I"," ","c","a","n","n","o","t">>

\* prose with a denylisted keyword
DROPIT ==
    <<"I"," ","D","R","O","P"," ","i","t">>

StrLit(s) == <<Q>> \o s \o <<Q>>

\* the text of an object with the given <<name, value text>> members; a
\* member whose value text is empty is left out
RECURSIVE MembersText(_)
MembersText(ms) ==
    IF ms = <<>> THEN <<>>
    ELSE LET rest == MembersText(Tail(ms))
             m == Head(ms)
         IN  IF m[2] = <<>> THEN rest
             ELSE StrLit(m[1]) \o <<":">> \o m[2]
                    \o (IF rest = <<>> THEN <<>> ELSE <<",">> \o rest)

ObjText(ms) == <<"{">> \o MembersText(ms) \o <<"}">>

SqlFieldTexts ==
    { <<>>,
      StrLit(SELECT1),
      StrLit(DROPT),
      StrLit(<<>>),
      StrLit(<<"a","{","b">>),
      <<"1">>,
      <<"n","u","l","l">> }

ErrorFieldTexts ==
    { <<>>,
      StrLit(<<>>),
      StrLit(<<"o","o","p","s">>),
      StrLit(<<"d","r","o","p">>),
      <<"1">> }

ParamFieldTexts == { <<>>, <<"[","]">>, <<"[","4","2","]">> }

\* replies in the shape the getSQL prompt asks for
SqlReplies ==
    { ObjText(<< <<K_sql, s>>, <<K_paramValues, p>>, <<K_error, e>> >>) :
        s \in SqlFieldTexts, p \in ParamFieldTexts, e \in ErrorFieldTexts }

\* replies in the shape the completeEmailSMSMessages prompt asks for
MessageReplies ==
    { ObjText(<< <<K_emailSubject, a>>, <<K_emailBody, b>>, <<K_sms, c>>,
                 <<K_status, d>>, <<K_error, e>> >>) :
        a \in {<<>>, StrLit(<<"H","i">>)},
        b \in {<<>>, StrLit(<<"H","e","l","l","o">>)},
        c \in {<<>>, StrLit(<<"H","i">>)},
        d \in {<<>>, <<"f","a","l","s","e">>},
        e \in {<<>>, StrLit(<<"x">>)} }

\* an object nested three levels deep
DeepReply ==
    ObjText(<< <<K_sql, StrLit(SELECT1)>>,
               <<K_paramValues,
                 <<"[">> \o ObjText(<< <<(<<"a">>), ObjText(<< <<(<<"b">>), <<"1">>>> >>)>> >>)
                       \o <<"]">> >> >>)

\* the examples of the specification, also wrapped in prose and whitespace
ExampleReplies ==
    { ObjText(<< <<K_sql, StrLit(SELECT1)>>, <<K_paramValues, <<"[","4","2","]">>>> >>),
      ObjText(<< <<K_sql, StrLit(DROPT)>>, <<K_paramValues, <<"[","]">>>> >>),
      ObjText(<< <<K_emailSubject, StrLit(<<"H","i">>)>>,
                 <<K_emailBody, StrLit(<<"H","e","l","l","o">>)>>,
                 <<K_sms, StrLit(<<"H","i">>)>> >>) }

WrappedReplies ==
    { pre \o r \o post :
        r \in ExampleReplies,
        pre \in {<<" ">>, <<"o","k",":"," ">>},
        post \in {<<"\n">>, <<" ","o","k">>} }

\* every text over {, } and a of at most n characters
BraceTexts(n) == UNION {[1..k -> {"{", "}", "a"}] : k \in 0..n}

ProseReplies == {ICANNOT, DROPIT, <<" ","o","k"," ","\n">>}

\* message.content of the first choice; Undefined when the response has none
ModelContents ==
    {Undefined} \cup
    {Str(r) : r \in SqlReplies \cup MessageReplies \cup {DeepReply}
                      \cup WrappedReplies \cup ProseReplies
                      \cup BraceTexts(MaxReplyLen)}

(***************************************************************************)
(* The completion client.                                                  *)
(***************************************************************************)
\* line 88, with || in place of &&
isAzureOpenAIAny ==
    Truthy(OPENAI_API_KEY) \/ Truthy(OPENAI_ENDPOINT) \/ Truthy(OPENAI_MODEL)

isAzureOpenAI ==
    Truthy(OPENAI_API_KEY) /\ Truthy(OPENAI_ENDPOINT) /\ Truthy(OPENAI_MODEL)

\* the guard of line 14
AzureConfigMissing ==
    ~Truthy(OPENAI_API_KEY) \/ ~Truthy(OPENAI_ENDPOINT) \/ ~Truthy(OPENAI_MODEL)

\* the guard of line 56
OpenAIConfigMissing == ~Truthy(OPENAI_API_KEY)

\* lines 41-46: what getAzureOpenAICompletion returns for message.content
AzureContent(raw) ==
    LET c == IF raw = Undefined THEN <<>> ELSE trim(raw.v)
    IN  IF c # <<>> /\ includes(c, <<"{">>) /\ includes(c, <<"}">>)
        THEN extractJson(c)
        ELSE c

\* lines 74-79: what getOpenAICompletion returns for message.content
OpenAIContent(raw) ==
    LET c == extractJson(IF raw = Undefined THEN <<>> ELSE trim(raw.v))
    IN  IF c # <<>> /\ includes(c, <<"{">>) /\ includes(c, <<"}">>)
        THEN extractJson(c)
        ELSE c

\* callOpenAI up to the first await of the backend it selects: the backend
\* either throws its configuration error, which the calling flow catches,
\* or issues its request
callOpenAI ==
    LET backend == IF isAzureOpenAI THEN "getAzureOpenAICompletion"
                   ELSE "getOpenAICompletion"
        missing == IF backend = "getAzureOpenAICompletion"
                   THEN AzureConfigMissing
                   ELSE OpenAIConfigMissing
    IN  /\ invoked' = invoked \cup {backend}
        /\ IF missing
           THEN /\ caught' = "config"
                /\ requests' = requests
                /\ pc' = "done"
           ELSE /\ caught' = caught
                /\ requests' = Append(requests, backend)
                /\ pc' = "await"

(***************************************************************************)
(* The flows.                                                              *)
(***************************************************************************)
IsJsonShaped(r) == r # <<>> /\ startsWith(r, "{") /\ endsWith(r, "}")

\* lines 131-142 of getSQL once callOpenAI has resolved to r: the result
\* accumulator, the exception caught and what JSON.parse did
getSQLTry(qd, r) ==
    LET p == JSON_parse(r)
        step4 == IF IsJsonShaped(r) THEN p.val
                 ELSE Obj(SetField(qd.v, K_error, Str(r)))
        f1 == isProhibitedQuery(Get(step4, K_sql))
        f2 == isProhibitedQuery(Get(step4, K_error))
        veto == Obj(SetField(SetField(step4.v, K_sql, Str(<<>>)),
                             K_error, Str(ProhibitedText)))
        call == IF IsJsonShaped(r) THEN "ok" ELSE "none"
    IN  IF IsJsonShaped(r) /\ ~p.ok
        THEN [queryData |-> qd, caught |-> "parse",
              parsed |-> [call |-> "threw", val |-> Undefined]]
        ELSE IF f1.threw \/ (~f1.val /\ f2.threw)
        THEN [queryData |-> step4, caught |-> "filter",
              parsed |-> [call |-> call, val |-> step4]]
        ELSE IF f1.val \/ f2.val
        THEN [queryData |-> veto, caught |-> "none",
              parsed |-> [call |-> call, val |-> step4]]
        ELSE [queryData |-> step4, caught |-> "none",
              parsed |-> [call |-> call, val |-> step4]]

\* lines 189-200 of completeEmailSMSMessages once callOpenAI has resolved to r
completeEmailSMSMessagesTry(ct, r) ==
    LET p == JSON_parse(r)
    IN  IF IsJsonShaped(r) /\ ~p.ok
        THEN [content |-> ct, caught |-> "parse",
              parsed |-> [call |-> "threw", val |-> Undefined]]
        ELSE IF IsJsonShaped(r)
        THEN [content |->
                 Obj(SetField(Spread(SetField(EmptyFields, K_content, ct), p.val.v),
                              K_status, Bool(TRUE))),
              caught |-> "none",
              parsed |-> [call |-> "ok", val |-> p.val]]
        ELSE [content |-> Obj(SetField(ct.v, K_error, Str(r))),
              caught |-> "none",
              parsed |-> [call |-> "none", val |-> Undefined]]

(***************************************************************************)
(* The state machine.                                                      *)
(***************************************************************************)
Init ==
    /\ OPENAI_API_KEY \in EnvValues
    /\ OPENAI_ENDPOINT \in EnvValues
    /\ OPENAI_MODEL \in EnvValues
    /\ op \in {"getSQL", "completeEmailSMSMessages"}
    /\ pc = "start"
    /\ invoked = {}
    /\ requests = <<>>
    /\ rawContent = Undefined
    /\ results = Undefined
    /\ parsed = [call |-> "none", val |-> Undefined]
    /\ queryData = Undefined
    /\ content = Undefined
    /\ caught = "none"
    /\ escaped = FALSE

env == <<OPENAI_API_KEY, OPENAI_ENDPOINT, OPENAI_MODEL>>

\* line 112: the read of db.schema fails; nothing encloses the await, so
\* the promise of getSQL rejects
getSQLReadFileFails ==
    /\ op = "getSQL" /\ pc = "start"
    /\ escaped' = TRUE
    /\ pc' = "done"
    /\ UNCHANGED <<env, op, invoked, requests, rawContent, results, parsed,
                   queryData, content, caught>>

\* lines 112-131: db.schema is read, queryData gets its default and
\* callOpenAI runs to its await
getSQLReadFile ==
    /\ op = "getSQL" /\ pc = "start"
    /\ queryData' = DefaultQueryData
    /\ callOpenAI
    /\ UNCHANGED <<env, op, rawContent, results, parsed, content, escaped>>

\* lines 163-189: content gets its default and callOpenAI runs to its await
completeEmailSMSMessagesStart ==
    /\ op = "completeEmailSMSMessages" /\ pc = "start"
    /\ content' = DefaultContent
    /\ callOpenAI
    /\ UNCHANGED <<env, op, rawContent, results, parsed, queryData, escaped>>

\* the request fails (fetch or createChatCompletion rejects, the body is no
\* JSON, choices is missing): the backend logs and rethrows (lines 48-51,
\* 81-84) and the flow catches (lines 140-142, 198-200)
CompletionFails ==
    /\ pc = "await"
    /\ caught' = "network"
    /\ pc' = "done"
    /\ UNCHANGED <<env, op, invoked, requests, rawContent, results, parsed,
                   queryData, content, escaped>>

\* the response arrives: the backend that issued the request trims and
\* extracts, and callOpenAI resolves
CompletionReturns ==
    /\ pc = "await"
    /\ \E raw \in ModelContents :
          /\ rawContent' = raw
          /\ results' = IF requests[Len(requests)] = "getAzureOpenAICompletion"
                        THEN Str(AzureContent(raw))
                        ELSE Str(OpenAIContent(raw))
    /\ pc' = "resume"
    /\ UNCHANGED <<env, op, invoked, requests, parsed, queryData, content,
                   caught, escaped>>

\* lines 133-144
getSQLResume ==
    /\ op = "getSQL" /\ pc = "resume"
    /\ LET t == getSQLTry(queryData, results.v)
       IN  /\ queryData' = t.queryData
           /\ caught' = t.caught
           /\ parsed' = t.parsed
    /\ pc' = "done"
    /\ UNCHANGED <<env, op, invoked, requests, rawContent, results, content,
                   escaped>>

\* lines 190-202
completeEmailSMSMessagesResume ==
    /\ op = "completeEmailSMSMessages" /\ pc = "resume"
    /\ LET t == completeEmailSMSMessagesTry(content, results.v)
       IN  /\ content' = t.content
           /\ caught' = t.caught
           /\ parsed' = t.parsed
    /\ pc' = "done"
    /\ UNCHANGED <<env, op, invoked, requests, rawContent, results, queryData,
                   escaped>>

Next ==
    \/ getSQLReadFileFails
    \/ getSQLReadFile
    \/ completeEmailSMSMessagesStart
    \/ CompletionFails
    \/ CompletionReturns
    \/ getSQLResume
    \/ completeEmailSMSMessagesResume

Spec == Init /\ [][Next]_vars

(***************************************************************************)
(* extractJson on its own: every text of at most MaxLen characters over    *)
(* {, } and a.                                                             *)
(***************************************************************************)
InitExtractJson ==
    /\ OPENAI_API_KEY = Undefined
    /\ OPENAI_ENDPOINT = Undefined
    /\ OPENAI_MODEL = Undefined
    /\ op = "extractJson"
    /\ pc = "start"
    /\ invoked = {}
    /\ requests = <<>>
    /\ rawContent \in {Str(x) : x \in BraceTexts(MaxLen)}
    /\ results = Undefined
    /\ parsed = [call |-> "none", val |-> Undefined]
    /\ queryData = Undefined
    /\ content = Undefined
    /\ caught = "none"
    /\ escaped = FALSE

extractJsonCall ==
    /\ op = "extractJson" /\ pc = "start"
    /\ results' = Str(extractJson(rawContent.v))
    /\ pc' = "done"
    /\ UNCHANGED <<env, op, invoked, requests, rawContent, parsed, queryData,
                   content, caught, escaped>>

NextExtractJson == extractJsonCall

SpecExtractJson == InitExtractJson /\ [][NextExtractJson]_vars

(***************************************************************************)
(* Vocabulary of the properties.                                           *)
(***************************************************************************)
\* f has run to its end
Done(f) == op = f /\ pc = "done"

\* callOpenAI resolved: a response arrived and a backend returned its text
Replied == results # Undefined

\* the reply as the model wrote it, and trimmed
RawText == IF rawContent = Undefined THEN <<>> ELSE rawContent.v

TrimmedText == trim(RawText)

\* x is a string holding a denylisted keyword, whatever the case
ContainsKeyword(x) ==
    /\ x.t = "string"
    /\ \E k \in 1..Len(prohibitedKeywords) :
          includes(toLowerCase(x.v), prohibitedKeywords[k])

\* an environment variable is present and non-empty
Present(x) == x.t = "string" /\ Len(x.v) > 0

\* callOpenAI has been called
Called == pc \in {"await", "resume"} \/ (pc = "done" /\ ~escaped)

\* braces opened minus braces closed over t[i..k]
Depth(t, i, k) ==
    Cardinality({n \in i..k : t[n] = "{"}) - Cardinality({n \in i..k : t[n] = "}"})

\* t[i..j] starts with {, ends with the } that matches it and nests braces at
\* most one level deep
Balanced(t, i, j) ==
    /\ i < j /\ t[i] = "{" /\ t[j] = "}"
    /\ Depth(t, i, j) = 0
    /\ \A k \in i..(j - 1) : Depth(t, i, k) > 0
    /\ \A k \in i..j : Depth(t, i, k) <= 2

BraceFree(t) == \A n \in 1..Len(t) : ~IsBrace(t[n])

\* the leftmost balanced substring of t, or the empty text
LeftmostBalanced(t) ==
    LET pairs == {ij \in (1..Len(t)) \X (1..Len(t)) : Balanced(t, ij[1], ij[2])}
    IN  IF pairs = {} THEN <<>>
        ELSE LET ij == CHOOSE a \in pairs : \A b \in pairs : a[1] <= b[1]
             IN  SubSeq(t, ij[1], ij[2])

(***************************************************************************)
(* The properties.                                                         *)
(***************************************************************************)
\* C1: when the sql field or the error field that getSQL obtained from the
\* reply (the JSON.parse result, or the fallback object) holds a denylisted
\* keyword, the result of getSQL has sql = '' and error = 'Prohibited query.'
C1_Veto ==
    (/\ Done("getSQL")
     /\ parsed.val # Undefined
     /\ \/ ContainsKeyword(Get(parsed.val, K_sql))
        \/ ContainsKeyword(Get(parsed.val, K_error)))
    => /\ Get(queryData, K_sql) = Str(<<>>)
       /\ Get(queryData, K_error) = Str(ProhibitedText)

\* C2: in every result getSQL returns, a non-empty error string comes with
\* an empty sql (the empty string, or no value at all)
C2_ErrorImpliesNoSql ==
    (/\ Done("getSQL") /\ ~escaped
     /\ Get(queryData, K_error).t = "string"
     /\ Get(queryData, K_error).v # <<>>)
    => ~Truthy(Get(queryData, K_sql))

\* C3: no exception escapes getSQL or completeEmailSMSMessages: every call
\* ends by returning its result object
C3_NeverThrows == ~escaped

\* C4: for a reply r (trimmed) that does not both start with { and end with }
\* and holds no denylisted keyword, getSQL returns
\* {sql: '', paramValues: [], error: r}, on either backend
C4_Fallback ==
    (/\ Done("getSQL") /\ Replied
     /\ ~IsJsonShaped(TrimmedText)
     /\ ~ContainsKeyword(Str(TrimmedText)))
    => queryData = Obj(SetField(DefaultQueryData.v, K_error, Str(TrimmedText)))

\* C5: for a reply that is a JSON object with just the fields sql and
\* paramValues, sql holding no denylisted keyword, getSQL returns the reply's
\* sql and paramValues and error = ''
C5_PassThrough ==
    (/\ Done("getSQL") /\ Replied
     /\ JSON_parse(TrimmedText).ok
     /\ JSON_parse(TrimmedText).val.t = "object"
     /\ DOMAIN JSON_parse(TrimmedText).val.v = {K_sql, K_paramValues}
     /\ ~ContainsKeyword(Get(JSON_parse(TrimmedText).val, K_sql)))
    => /\ Get(queryData, K_sql) = Get(JSON_parse(TrimmedText).val, K_sql)
       /\ Get(queryData, K_paramValues)
              = Get(JSON_parse(TrimmedText).val, K_paramValues)
       /\ Get(queryData, K_error) = Str(<<>>)

\* C6: completeEmailSMSMessages ends with status = true exactly when
\* JSON.parse succeeded on the reply, and whenever a reply arrived that was
\* not parsed it ends with status = false and error = the reply text
C6_StatusIffParsed ==
    Done("completeEmailSMSMessages")
    => /\ Get(content, K_status) = Bool(TRUE) <=> parsed.call = "ok"
       /\ (Replied /\ parsed.call # "ok")
          => /\ Get(content, K_status) = Bool(FALSE)
             /\ Get(content, K_error) \in {Str(RawText), Str(TrimmedText)}

\* C7: when the reply parsed as a JSON object, the result of
\* completeEmailSMSMessages has status = true, every field of the default
\* shape at the top level (with its default unless the reply supplies it)
\* and every field of the reply
C7_MergedOntoDefault ==
    (Done("completeEmailSMSMessages") /\ parsed.call = "ok")
    => /\ Get(content, K_status) = Bool(TRUE)
       /\ \A k \in DOMAIN DefaultContent.v :
             /\ k \in DOMAIN content.v
             /\ (k \notin DOMAIN parsed.val.v /\ k # K_status)
                => content.v[k] = DefaultContent.v[k]
       /\ \A k \in (DOMAIN parsed.val.v) \ {K_status} :
             Get(content, k) = parsed.val.v[k]

\* C8: whenever getSQL swallowed an exception of the completion call, of
\* JSON.parse or of the safety filter, it returns exactly the default
\* {sql: '', paramValues: [], error: ''}
C8_SwallowedYieldsDefault ==
    (Done("getSQL") /\ caught # "none") => queryData = DefaultQueryData

\* C9: every call of callOpenAI uses exactly one backend, the hosted one
\* exactly when API key, endpoint and model name are all present and
\* non-empty; a backend whose configuration is missing (the direct one
\* without API key) fails with the configuration error and no request is
\* ever issued; otherwise exactly that backend issues one request
C9_BackendRouting ==
    Called
    => /\ Cardinality(invoked) = 1
       /\ invoked = {"getAzureOpenAICompletion"}
            <=> (Present(OPENAI_API_KEY) /\ Present(OPENAI_ENDPOINT)
                   /\ Present(OPENAI_MODEL))
       /\ invoked = {"getOpenAICompletion"}
            <=> ~(Present(OPENAI_API_KEY) /\ Present(OPENAI_ENDPOINT)
                    /\ Present(OPENAI_MODEL))
       /\ IF ~Present(OPENAI_API_KEY)
          THEN caught = "config" /\ requests = <<>>
          ELSE caught # "config" /\ Len(requests) = 1
                 /\ {requests[1]} = invoked

\* the direct backend was selected with endpoint and model set but no API
\* key, and failed before any request
C9_Witness ==
    /\ pc = "done" /\ caught = "config"
    /\ invoked = {"getOpenAICompletion"}
    /\ Present(OPENAI_ENDPOINT) /\ Present(OPENAI_MODEL)
    /\ requests = <<>>

\* C10: extractJson(t) is the leftmost substring of t that starts with {,
\* ends with its matching } and nests braces at most one level deep, '' when
\* there is none; so it is s whenever t = n1 + s + n2 with n1, n2 brace-free
\* and s such a substring
C10_ExtractJson ==
    Done("extractJson")
    => /\ results = Str(LeftmostBalanced(RawText))
       /\ \A i, j \in 1..Len(RawText) :
             (/\ Balanced(RawText, i, j)
              /\ BraceFree(SubSeq(RawText, 1, i - 1))
              /\ BraceFree(SubSeq(RawText, j + 1, Len(RawText))))
             => results = Str(SubSeq(RawText, i, j))
       /\ (\A i, j \in 1..Len(RawText) : ~Balanced(RawText, i, j))
             => results = Str(<<>>)

\* an object with a nested group between non-empty brace-free noise was
\* extracted
C10_Witness ==
    /\ Done("extractJson")
    /\ \E i, j \in 2..(Len(RawText) - 1) :
          /\ Balanced(RawText, i, j)
          /\ \E k \in i..j : Depth(RawText, i, k) = 2
          /\ BraceFree(SubSeq(RawText, 1, i - 1))
          /\ BraceFree(SubSeq(RawText, j + 1, Len(RawText)))
          /\ results = Str(SubSeq(RawText, i, j))

====
